---- MODULE Spec2Model ----
(***************************************************************************)
(* Feature extraction of utils/features.py: the bounded one-hot quantizer  *)
(* make_onehot, the feature plane functions, extract_features and          *)
(* bulk_extract_features.                                                  *)
(*                                                                         *)
(* An N x N x k tensor is a function t with t[r][c] the sequence of the k  *)
(* channel values at row r, column c (rows and columns 0 .. N-1 as in the  *)
(* code; channel i of the code is element i+1 of the sequence).            *)
(***************************************************************************)
EXTENDS Integers, Sequences, FiniteSets, TLC

VARIABLES
    N,          \* go.N, the side of the board (a module global of utils/go.py)
    pc,         \* "call": inputs chosen, "return": the call has returned
    feature,    \* make_onehot: the integer array (1-D, as ravel() sees it)
    nplanes,    \* make_onehot: the width `planes`
    position,   \* the Position given to a feature plane function
    positions,  \* the Position objects the caller holds (extract / bulk)
    features,   \* the feature list given to extract / bulk
    call,       \* the last call: its arguments, the Position(s) as they were given
    ret         \* what the last call returned (a tensor or an exception)

vars == <<N, pc, feature, nplanes, position, positions, features, call, ret>>

(* ------------------------------ bounds -------------------------------- *)
\* side of the small boards
BoardSide == 2
\* make_onehot: length of the array, largest entry, largest width
MaxLen == 3
MaxVal == 5
MaxPlanes == 4

(* ------------------------- program constants -------------------------- *)
\* resolution / truncation limit of the one-hot features
P == 8
\* go.BLACK, go.WHITE, go.EMPTY
BLACK == 1
WHITE == -1
EMPTY == 0
\* np.uint8 arithmetic is modulo 2^8
U8 == 256
\* the number of board snapshots a Position keeps in recent_board
HISTORY == 8
\* side of the standard board
StandardSide == 19

\* Python's None: a pass in position.recent, no dihedral, an argument not given
None == <<>>

Idx == 0 .. (N - 1)
Points == {<<r, c>> : r \in Idx, c \in Idx}

Min(a, b) == IF a < b THEN a ELSE b
Max(a, b) == IF a > b THEN a ELSE b

\* the sequences over S of length lo .. hi
SeqsOf(S, lo, hi) == UNION {[1 .. n -> S] : n \in lo .. hi}

\* np.zeros([go.N, go.N, k]) and np.ones([go.N, go.N, k])
Zeros(k) == [r \in Idx |-> [c \in Idx |-> [ch \in 1 .. k |-> 0]]]
Ones(k) == [r \in Idx |-> [c \in Idx |-> [ch \in 1 .. k |-> 1]]]

\* LET x == v IN Op(x)
With(v, Op(_)) == Op(v)

\* last-axis size of a tensor
Width(t) == Len(t[0][0])

(* --------------------------- call results ----------------------------- *)
\* a call returns a value or raises; either way it leaves the Position(s)
\* it was given in the state `after`
Return(v, after) == [raised |-> "None", value |-> v, after |-> after]
Raise(e, after) == [raised |-> e, value |-> <<>>, after |-> after]
\* what the caller gets
Result(e) == [raised |-> e.raised, value |-> e.value]

(* ------------------------------ Position ------------------------------ *)
\* The Position is built by utils/go.py. A Position of the model is a record
\*   board        [r][c] in {BLACK, WHITE, EMPTY}
\*   to_play      BLACK or WHITE
\*   recent       sequence of <<player, move>>, move a point or None, latest last
\*   recent_board sequence of boards, latest last
\*   groups       lib_tracker.groups.values(): sequence of
\*                [color, nstones (= len(g.stones)), liberties (set of points)]
\*   liberties    get_liberties(): [r][c] liberty count of the group at (r, c)
EmptyBoard == [r \in Idx |-> [c \in Idx |-> EMPTY]]

Neighbors(p) ==
    {q \in {<<p[1] - 1, p[2]>>, <<p[1] + 1, p[2]>>, <<p[1], p[2] - 1>>, <<p[1], p[2] + 1>>} :
        q[1] \in Idx /\ q[2] \in Idx}

RECURSIVE Grow(_, _, _, _)
\* the connected stones of `colour` around `stones`, grown from `frontier`
Grow(board, colour, stones, frontier) ==
    LET more == {q \in UNION {Neighbors(s) : s \in frontier} :
                    board[q[1]][q[2]] = colour /\ q \notin stones}
    IN  IF more = {} THEN stones ELSE Grow(board, colour, stones \cup more, more)

LibertiesOf(board, stones) ==
    {q \in UNION {Neighbors(s) : s \in stones} : board[q[1]][q[2]] = EMPTY}

RECURSIVE GroupsFrom(_, _)
\* the groups of the stones `todo`
GroupsFrom(board, todo) ==
    IF todo = {} THEN <<>>
    ELSE With(CHOOSE q \in todo : TRUE, LAMBDA p :
         With(Grow(board, board[p[1]][p[2]], {p}, {p}), LAMBDA stones :
            <<[color |-> board[p[1]][p[2]],
               stones |-> stones,
               liberties |-> LibertiesOf(board, stones)]>>
            \o GroupsFrom(board, todo \ stones)))

StoneGroups(board) ==
    GroupsFrom(board, {p \in Points : board[p[1]][p[2]] # EMPTY})

\* lib_tracker.groups.values() of a board
LibTrackerGroups(board) ==
    With(StoneGroups(board), LAMBDA gs :
        [k \in 1 .. Len(gs) |->
            [color |-> gs[k].color,
             nstones |-> Cardinality(gs[k].stones),
             liberties |-> gs[k].liberties]])

\* get_liberties() of a board
GetLiberties(board) ==
    With(StoneGroups(board), LAMBDA gs :
        [r \in Idx |-> [c \in Idx |->
            IF board[r][c] = EMPTY THEN 0
            ELSE Cardinality(
                    gs[CHOOSE k \in 1 .. Len(gs) : <<r, c>> \in gs[k].stones].liberties)]])

\* the colour that plays half-move k (1-based): Black moves first
PlayerOf(k) == IF k % 2 = 1 THEN BLACK ELSE WHITE

\* the last n elements of a sequence: s[-n:]
LastN(s, n) == SubSeq(s, Max(1, Len(s) - n + 1), Len(s))

RECURSIVE BoardsOf(_, _, _)
\* the boards after each half-move of `moves` from `board` on (a pass leaves
\* the board as it is; the game records of the model capture nothing)
BoardsOf(board, moves, k) ==
    IF k > Len(moves) THEN <<>>
    ELSE With(IF moves[k] = None THEN board
              ELSE [board EXCEPT ![moves[k][1]][moves[k][2]] = PlayerOf(k)],
              LAMBDA next : <<next>> \o BoardsOf(next, moves, k + 1))

\* the Position reached from the empty board by the half-moves `moves`
PositionAfter(moves) ==
    With(BoardsOf(EmptyBoard, moves, 1), LAMBDA boards :
    With(IF moves = <<>> THEN EmptyBoard ELSE boards[Len(boards)], LAMBDA board :
        [board |-> board,
         to_play |-> PlayerOf(Len(moves) + 1),
         recent |-> [k \in 1 .. Len(moves) |-> <<PlayerOf(k), moves[k]>>],
         recent_board |-> LastN(boards, HISTORY),
         groups |-> LibTrackerGroups(board),
         liberties |-> GetLiberties(board)]))

(* ---------------------------- make_onehot ----------------------------- *)
\* omits the "- 1" of line 43: a 1 is encoded one place too far
MakeOnehotRavel_NoShift(flat, planes) ==
    LET n == Len(flat)
        capped == [j \in 1 .. n |-> Min(flat[j], planes)]
        onehot_index_offsets == [j \in 1 .. n |-> (j - 1) * planes + capped[j]]
        nonzero_index_offsets ==
            {onehot_index_offsets[j] : j \in {k \in 1 .. n : capped[k] # 0}}
    IN  [k \in 1 .. (n * planes) |-> IF (k - 1) \in nonzero_index_offsets THEN 1 ELSE 0]

\* make_onehot on the ravelled array: element j (0-based) of `flat` owns the
\* cells j*planes .. j*planes + planes - 1 of the ravelled result
MakeOnehotRavel(flat, planes) ==
    LET n == Len(flat)
        capped == [j \in 1 .. n |-> Min(flat[j], planes)]
        onehot_index_offsets == [j \in 1 .. n |-> (j - 1) * planes + capped[j]]
        nonzero_index_offsets ==
            {onehot_index_offsets[j] - 1 : j \in {k \in 1 .. n : capped[k] # 0}}
    IN  [k \in 1 .. (n * planes) |-> IF (k - 1) \in nonzero_index_offsets THEN 1 ELSE 0]

\* feature.ravel() of an N x N array: row-major
Ravel(a) == [k \in 1 .. (N * N) |-> a[(k - 1) \div N][(k - 1) % N]]

\* make_onehot of an N x N array: shape N x N x planes
make_onehot(a, planes) ==
    LET flat == MakeOnehotRavel(Ravel(a), planes)
    IN  [r \in Idx |-> [c \in Idx |->
            [ch \in 1 .. planes |-> flat[(r * N + c) * planes + ch]]]]

(* ----------------------- feature plane functions ---------------------- *)
\* the decorator planes(num_planes): tags the function f with its width
Planes(num_planes, f) == [fn |-> f, planes |-> num_planes]

Bit(b) == IF b THEN 1 ELSE 0

stone_color_feature(pos) ==
    LET board == pos.board
    IN  [r \in Idx |-> [c \in Idx |->
            IF pos.to_play = BLACK
            THEN <<Bit(board[r][c] = BLACK), Bit(board[r][c] = WHITE),
                   Bit(board[r][c] = EMPTY)>>
            ELSE <<Bit(board[r][c] = WHITE), Bit(board[r][c] = BLACK),
                   Bit(board[r][c] = EMPTY)>>]]

ones_feature(pos) == Ones(1)

\* reversed(s)
Reversed(s) == [k \in 1 .. Len(s) |-> s[Len(s) + 1 - k]]

\* iterates most recent first, so that the latest move lands in channel 7
RecentMoves_OldestFirst(pos) == LastN(pos.recent, P)

\* reversed(position.recent[-P:])
RecentMoves(pos) == Reversed(LastN(pos.recent, P))

RECURSIVE RecentMoveLoop(_, _, _)
\* the loop of recent_move_feature from index i (0-based) on
RecentMoveLoop(moves, i, onehot_features) ==
    IF i >= Len(moves) THEN onehot_features
    ELSE LET move == moves[i + 1][2]
         IN  RecentMoveLoop(moves, i + 1,
                IF move # None
                THEN [r \in Idx |-> [c \in Idx |-> [ch \in 1 .. P |->
                        IF <<r, c>> = move /\ ch = i + 1 THEN 1
                        ELSE onehot_features[r][c][ch]]]]
                ELSE onehot_features)

recent_move_feature(pos) == RecentMoveLoop(RecentMoves(pos), 0, Zeros(P))

liberty_feature(pos) == make_onehot(pos.liberties, P)

\* features[last_lib] += len(g.stones) on an np.uint8 array: the sum is stored
\* modulo 2^8 (NumPy 1.x; NumPy 2 raises OverflowError for a stone count that
\* is itself out of the range of np.uint8)
U8Add(a, b) == (a + b) % U8

\* line 94: the groups of the player to move are skipped
IsSkipped(g, pos) == g.color = pos.to_play

RECURSIVE WouldCaptureLoop(_, _, _)
\* the loop of would_capture_feature over groups k .. Len(groups)
WouldCaptureLoop(pos, k, feats) ==
    IF k > Len(pos.groups) THEN feats
    ELSE LET g == pos.groups[k]
         IN  IF IsSkipped(g, pos) THEN WouldCaptureLoop(pos, k + 1, feats)
             ELSE IF Cardinality(g.liberties) = 1
             THEN LET last_lib == CHOOSE p \in g.liberties : TRUE
                  IN  WouldCaptureLoop(pos, k + 1,
                        [r \in Idx |-> [c \in Idx |->
                            IF <<r, c>> = last_lib THEN U8Add(feats[r][c], g.nstones)
                            ELSE feats[r][c]]])
             ELSE WouldCaptureLoop(pos, k + 1, feats)

would_capture_feature(pos) ==
    make_onehot(WouldCaptureLoop(pos, 1, [r \in Idx |-> [c \in Idx |-> 0]]), P)

\* np.repeat(a, repeats=2, axis=0) whose rows would be views of a's own boards
NpRepeat2_Views(a) ==
    [cells |-> a,
     rows |-> [k \in 1 .. 2 * Len(a) |-> (k + 1) \div 2],
     shared |-> TRUE]

\* np.repeat(a, repeats=2, axis=0): a new array holding every board of a
\* twice. `cells` is the storage, rows[k] the cell that row k of the result
\* occupies, `shared` whether the storage is a's own.
NpRepeat2(a) ==
    [cells |-> [k \in 1 .. 2 * Len(a) |-> a[(k + 1) \div 2]],
     rows |-> [k \in 1 .. 2 * Len(a) |-> k],
     shared |-> FALSE]

\* keeps the perspective of the first plane for every plane
NextColour_Same(colour) == colour

\* player_colour *= -1
NextColour(colour) == colour * (-1)

\* board *= player_colour, element by element
Times(board, colour) == [r \in Idx |-> [c \in Idx |-> board[r][c] * colour]]

RECURSIVE EightMoveLoop(_, _, _, _)
\* the loop of player_opponent_recent_eight_move from index i (0-based) on,
\* over reversed(rep); returns the planes and the storage as the loop left it
EightMoveLoop(rep, i, colour, state_features) ==
    IF i >= Len(rep.rows) THEN [planes |-> state_features, cells |-> rep.cells]
    ELSE With(rep.rows[Len(rep.rows) - i], LAMBDA cell :
         With(Times(rep.cells[cell], colour), LAMBDA board :
            EightMoveLoop(
                [rep EXCEPT !.cells[cell] = board],
                i + 1,
                NextColour(colour),
                [r \in Idx |-> [c \in Idx |->
                    [ch \in 1 .. 16 |->
                        IF board[r][c] > 0 /\ ch = i + 1 THEN 1
                        ELSE state_features[r][c][ch]]]])))

\* returns the planes, or raises AssertionError; `after` is the Position as
\* the call leaves it
player_opponent_recent_eight_move(pos) ==
    IF ~(Len(pos.recent_board) <= HISTORY) THEN Raise("AssertionError", pos)
    ELSE With(NpRepeat2(pos.recent_board), LAMBDA rep :
         With(EightMoveLoop(rep, 0, pos.to_play, Zeros(16)), LAMBDA done :
            Return(done.planes,
                   IF rep.shared THEN [pos EXCEPT !.recent_board = done.cells]
                   ELSE pos)))

player_colour(pos) == IF pos.to_play = BLACK THEN Ones(1) ELSE Zeros(1)

\* a plane function of the caller's, tagged planes(2), whose tensor has one
\* channel
mistagged_feature(pos) == Ones(1)

\* feature(position) for a tagged function
Apply(f, pos) ==
    CASE f.fn = "stone_color_feature" -> Return(stone_color_feature(pos), pos)
      [] f.fn = "ones_feature" -> Return(ones_feature(pos), pos)
      [] f.fn = "recent_move_feature" -> Return(recent_move_feature(pos), pos)
      [] f.fn = "liberty_feature" -> Return(liberty_feature(pos), pos)
      [] f.fn = "would_capture_feature" -> Return(would_capture_feature(pos), pos)
      [] f.fn = "player_opponent_recent_eight_move" ->
            player_opponent_recent_eight_move(pos)
      [] f.fn = "player_colour" -> Return(player_colour(pos), pos)
      [] f.fn = "mistagged_feature" -> Return(mistagged_feature(pos), pos)

\* the plane functions features.py declares, with their widths
DeclaredFeatures ==
    {Planes(3, "stone_color_feature"),
     Planes(1, "ones_feature"),
     Planes(P, "recent_move_feature"),
     Planes(P, "liberty_feature"),
     Planes(P, "would_capture_feature"),
     Planes(16, "player_opponent_recent_eight_move"),
     Planes(1, "player_colour")}

DEFAULT_FEATURES ==
    <<Planes(16, "player_opponent_recent_eight_move"), Planes(1, "player_colour")>>

CallMakeOnehot ==
    /\ pc = "call"
    /\ ret' = MakeOnehotRavel(feature, nplanes)
    /\ pc' = "return"
    /\ UNCHANGED <<N, feature, nplanes, position, positions, features, call>>

InitOnehot ==
    /\ N = BoardSide
    /\ pc = "call"
    /\ feature \in SeqsOf(0 .. MaxVal, 1, MaxLen)
    /\ nplanes \in 1 .. MaxPlanes
    /\ position = None
    /\ positions = None
    /\ features = None
    /\ call = None
    /\ ret = None

SpecOnehot == InitOnehot /\ [][CallMakeOnehot]_vars

\* the one-hot vector of entry j (1-based) in the returned array
Vec(j) == SubSeq(ret, (j - 1) * nplanes + 1, j * nplanes)
OnesOf(v) == {i \in 1 .. Len(v) : v[i] = 1}

\* C1: every entry v >= 0 gets a vector of zeros and ones with at most one 1;
\* the vector is all zero iff v = 0; for 1 <= v < planes the 1 is at index
\* v-1; for v >= planes it is at index planes-1; the result has exactly
\* planes cells per entry, so no entry writes into another entry's vector.
C1_Quantizer ==
    pc = "return" =>
        /\ Len(ret) = Len(feature) * nplanes
        /\ \A j \in 1 .. Len(feature) :
            LET v == feature[j]
                vec == Vec(j)
            IN  /\ \A i \in 1 .. nplanes : vec[i] \in {0, 1}
                /\ Cardinality(OnesOf(vec)) <= 1
                /\ (OnesOf(vec) = {}) <=> (v = 0)
                /\ (1 <= v /\ v < nplanes) => OnesOf(vec) = {(v - 1) + 1}
                /\ v >= nplanes => OnesOf(vec) = {(nplanes - 1) + 1}

\* a saturated entry followed by a zero entry: the place where a 1 written
\* one cell too far would land in the neighbour's vector
C1_Witness ==
    /\ pc = "return"
    /\ Len(feature) >= 2
    /\ feature[1] > nplanes
    /\ feature[2] = 0
    /\ \E j \in 1 .. Len(feature) : 1 <= feature[j] /\ feature[j] < nplanes

(* ------------------------ recent_move_feature ------------------------- *)
\* bound on the length of position.recent
MaxRecent == 9

\* the moves a history of the model is made of: a pass and two points
MoveChoices == {None, <<0, 0>>, <<N - 1, 1>>}

CallRecentMoveFeature ==
    /\ pc = "call"
    /\ ret' = Result(Return(recent_move_feature(position), position))
    /\ pc' = "return"
    /\ UNCHANGED <<N, feature, nplanes, position, positions, features, call>>

\* recent_move_feature reads position.recent only
InitRecent ==
    /\ N = BoardSide
    /\ pc = "call"
    /\ \E moves \in SeqsOf(MoveChoices, 0, MaxRecent) :
            position = [recent |-> [k \in 1 .. Len(moves) |-> <<PlayerOf(k), moves[k]>>]]
    /\ feature = None
    /\ nplanes = 0
    /\ positions = None
    /\ features = None
    /\ call = None
    /\ ret = None

SpecRecent == InitRecent /\ [][CallRecentMoveFeature]_vars

\* the move played i half-moves before the most recent one (None: no such
\* half-move, or a pass)
MoveBefore(recent, i) ==
    IF i < Len(recent) THEN recent[Len(recent) - i][2] ELSE None

\* C8: channel i (0 .. 7) has a 1 exactly at the point of the move played i
\* half-moves before the most recent one when that half-move exists and is
\* not a pass, and is zero elsewhere; so the number of set bits is the number
\* of non-pass moves among the last 8 half-moves, and older moves set no bit.
C8_RecentMove ==
    pc = "return" =>
        LET t == ret.value
            recent == position.recent
        IN  /\ ret.raised = "None"
            /\ Width(t) = 8
            /\ \A i \in 0 .. 7 : \A r \in Idx : \A c \in Idx :
                   t[r][c][i + 1] = Bit(MoveBefore(recent, i) = <<r, c>>)
            /\ Cardinality({<<r, c, i>> \in Idx \X Idx \X (0 .. 7) : t[r][c][i + 1] = 1})
                 = Cardinality({i \in 0 .. 7 : MoveBefore(recent, i) # None})

\* more than 8 half-moves, the oldest a move on a point no later move is on,
\* and both a pass and a move among the last 8
C8_Witness ==
    /\ pc = "return"
    /\ Len(position.recent) > 8
    /\ position.recent[1][2] = <<0, 0>>
    /\ \A i \in 0 .. 7 : MoveBefore(position.recent, i) # <<0, 0>>
    /\ \E i \in 0 .. 7 : MoveBefore(position.recent, i) = None
    /\ MoveBefore(position.recent, 0) = <<N - 1, 1>>

(* ----------------- player_opponent_recent_eight_move ------------------ *)
\* bound on the length of position.recent_board (one more than the code allows)
MaxSnapshots == 9

\* the snapshots a history of the model is made of
BoardChoices ==
    {[EmptyBoard EXCEPT ![0][0] = BLACK, ![1][1] = WHITE],
     [EmptyBoard EXCEPT ![0][1] = WHITE, ![N - 1][0] = BLACK]}

\* the call returns: the caller gets its result, the Position is as it left it
ReturnsTo(e) ==
    /\ ret' = Result(e)
    /\ position' = e.after

CallEightMove ==
    /\ pc = "call"
    /\ ReturnsTo(player_opponent_recent_eight_move(position))
    /\ call' = [position |-> position]
    /\ pc' = "return"
    /\ UNCHANGED <<N, feature, nplanes, positions, features>>

\* player_opponent_recent_eight_move reads to_play and recent_board only
InitEightMove ==
    /\ N = BoardSide
    /\ pc = "call"
    /\ \E to_play \in {BLACK, WHITE} :
       \E boards \in SeqsOf(BoardChoices, 0, MaxSnapshots) :
            position = [to_play |-> to_play, recent_board |-> boards]
    /\ feature = None
    /\ nplanes = 0
    /\ positions = None
    /\ features = None
    /\ call = None
    /\ ret = None

SpecEightMove == InitEightMove /\ [][CallEightMove]_vars

Opponent(colour) == IF colour = BLACK THEN WHITE ELSE BLACK

\* C9: with m <= 8 snapshots (latest last), for every j < m plane 2j marks
\* exactly the cells of the j-th most recent snapshot that hold a stone of the
\* player to move and plane 2j+1 exactly those that hold a stone of the
\* opponent; empty cells are 0 in every plane; planes 2m .. 15 are all zero.
C9_EightMove ==
    (pc = "return" /\ Len(call.position.recent_board) <= 8) =>
        LET t == ret.value
            to_play == call.position.to_play
            boards == call.position.recent_board
            m == Len(boards)
        IN  /\ ret.raised = "None"
            /\ Width(t) = 16
            /\ \A r \in Idx : \A c \in Idx :
                /\ \A j \in 0 .. (m - 1) :
                    LET stone == boards[m - j][r][c]
                    IN  /\ t[r][c][2 * j + 1] = Bit(stone = to_play)
                        /\ t[r][c][2 * j + 2] = Bit(stone = Opponent(to_play))
                        /\ stone = EMPTY => (t[r][c][2 * j + 1] = 0 /\ t[r][c][2 * j + 2] = 0)
                /\ \A k \in (2 * m) .. 15 : t[r][c][k + 1] = 0

\* White to move, a history of 3 snapshots that differ, the latest with
\* stones of both colours
C9_Witness ==
    /\ pc = "return"
    /\ call.position.to_play = WHITE
    /\ Len(call.position.recent_board) = 3
    /\ call.position.recent_board[3] = [EmptyBoard EXCEPT ![0][0] = BLACK, ![1][1] = WHITE]
    /\ call.position.recent_board[2] # call.position.recent_board[3]
    /\ call.position.recent_board[1] = call.position.recent_board[3]
    /\ ret.value[0][0][2] = 1
    /\ ret.value[1][1][1] = 1

(* ----------------------- would_capture_feature ------------------------ *)
\* every group of the board has a liberty
IsLegalBoard(board) ==
    With(StoneGroups(board), LAMBDA gs : \A k \in DOMAIN gs : gs[k].liberties # {})

\* the boards of the small side, to_play either colour
SmallBoards ==
    {b \in [Idx -> [Idx -> {BLACK, WHITE, EMPTY}]] : IsLegalBoard(b)}

\* A board of the standard side: one group of `w` stones of `colour` on the
\* points with row-major index 1 .. w, next to the empty corner <<0, 0>>;
\* when `sealed`, stones of the other colour on every other liberty of the
\* group, which leaves the corner as its only liberty.
InBigGroup(r, c, w) ==
    r \in Idx /\ c \in Idx /\ 1 <= r * N + c /\ r * N + c <= w

BigGroupBoard(colour, w, sealed) ==
    [r \in Idx |-> [c \in Idx |->
        IF InBigGroup(r, c, w) THEN colour
        ELSE IF /\ sealed
                /\ <<r, c>> # <<0, 0>>
                /\ \/ InBigGroup(r - 1, c, w) \/ InBigGroup(r + 1, c, w)
                   \/ InBigGroup(r, c - 1, w) \/ InBigGroup(r, c + 1, w)
             THEN Opponent(colour)
             ELSE EMPTY]]

\* group sizes around the quantizer's cap and around the range of np.uint8
StoneCounts == {1, 2, P - 1, P, P + 1, U8 - 1, U8, U8 + 1}

BigBoards ==
    {BigGroupBoard(colour, w, sealed) :
        colour \in {BLACK, WHITE}, w \in StoneCounts, sealed \in BOOLEAN}

\* Position.__init__: the liberty tracker of the board
NewPosition ==
    /\ pc = "new"
    /\ position' = [board |-> position.board,
                    to_play |-> position.to_play,
                    groups |-> LibTrackerGroups(position.board)]
    /\ pc' = "call"
    /\ UNCHANGED <<N, feature, nplanes, positions, features, call, ret>>

CallWouldCapture ==
    /\ pc = "call"
    /\ ret' = Result(Return(would_capture_feature(position), position))
    /\ pc' = "return"
    /\ UNCHANGED <<N, feature, nplanes, position, positions, features, call>>

\* would_capture_feature reads to_play and lib_tracker.groups only
InitWouldCapture ==
    /\ \/ N = BoardSide
       \/ N = StandardSide
    /\ pc = "new"
    /\ \E board \in (IF N = BoardSide THEN SmallBoards ELSE BigBoards) :
       \E to_play \in {BLACK, WHITE} :
            position = [board |-> board, to_play |-> to_play]
    /\ feature = None
    /\ nplanes = 0
    /\ positions = None
    /\ features = None
    /\ call = None
    /\ ret = None

SpecWouldCapture == InitWouldCapture /\ [][NewPosition \/ CallWouldCapture]_vars

\* the quantizer as section 4.1 of the specification states it
Quantize(v, width) == [i \in 1 .. width |-> Bit(v >= 1 /\ i = Min(v, width))]

RECURSIVE CaptureSize(_, _, _)
\* the stones of the opponent's groups k .. whose only liberty is p
CaptureSize(pos, p, k) ==
    IF k > Len(pos.groups) THEN 0
    ELSE (IF pos.groups[k].color = Opponent(pos.to_play) /\ pos.groups[k].liberties = {p}
          THEN pos.groups[k].nstones ELSE 0)
         + CaptureSize(pos, p, k + 1)

\* C10: the vector at every point p is the quantizer (width 8) of the summed
\* stone counts of the opponent's groups whose liberty set is exactly {p}.
C10_WouldCapture ==
    pc = "return" =>
        \A r \in Idx : \A c \in Idx :
            ret.value[r][c] = Quantize(CaptureSize(position, <<r, c>>, 1), 8)

\* the same, wherever the summed stone count fits np.uint8
WouldCaptureBelowWrap ==
    pc = "return" =>
        \A r \in Idx : \A c \in Idx :
            CaptureSize(position, <<r, c>>, 1) < U8 =>
                ret.value[r][c] = Quantize(CaptureSize(position, <<r, c>>, 1), 8)

(* ------------------- extract_features, bulk_extract ------------------- *)
\* bounds on the feature list and on the positions of a batch
MaxFeatures == 2
MaxPositions == 2

\* np.flip(t, axis) that reverses the axis after the one asked for
NpFlip_NextAxis(t, axis) ==
    CASE axis = 0 -> [r \in Idx |-> [c \in Idx |-> t[r][N - 1 - c]]]
      [] axis = 1 -> [r \in Idx |-> [c \in Idx |-> Reversed(t[r][c])]]

\* np.flip(t, axis) that drops the last index instead of starting from it
NpFlip_OffByOne(t, axis) ==
    CASE axis = 0 -> [r \in Idx |-> [c \in Idx |-> t[Max(0, N - 2 - r)][c]]]
      [] axis = 1 -> [r \in Idx |-> [c \in Idx |-> t[r][Max(0, N - 2 - c)]]]

\* np.flip(t, axis): the tensor with the order of the indices of `axis` reversed
NpFlip(t, axis) ==
    CASE axis = 0 -> [r \in Idx |-> [c \in Idx |-> t[N - 1 - r][c]]]
      [] axis = 1 -> [r \in Idx |-> [c \in Idx |-> t[r][N - 1 - c]]]
      [] axis = 2 -> [r \in Idx |-> [c \in Idx |-> Reversed(t[r][c])]]

\* np.transpose(t, (1, 0, 2))
Transpose01(t) == [r \in Idx |-> [c \in Idx |-> t[c][r]]]

\* np.rot90(t, k), axes (0, 1), as numpy computes it
NpRot90(t, k) ==
    CASE k % 4 = 0 -> t
      [] k % 4 = 2 -> NpFlip(NpFlip(t, 0), 1)
      [] k % 4 = 1 -> Transpose01(NpFlip(t, 1))
      [] k % 4 = 3 -> NpFlip(Transpose01(t), 1)

RECURSIVE NpConcatenate2_Reversed(_)
\* np.concatenate(ts, axis=2) that puts the last tensor's channels first
NpConcatenate2_Reversed(ts) ==
    IF Len(ts) = 1 THEN ts[1]
    ELSE [r \in Idx |-> [c \in Idx |->
            NpConcatenate2_Reversed(Tail(ts))[r][c] \o ts[1][r][c]]]

RECURSIVE NpConcatenate2(_)
\* np.concatenate(ts, axis=2) of a non-empty list of N x N x k tensors
NpConcatenate2(ts) ==
    IF Len(ts) = 1 THEN ts[1]
    ELSE [r \in Idx |-> [c \in Idx |->
            ts[1][r][c] \o NpConcatenate2(Tail(ts))[r][c]]]

RECURSIVE ApplyAll(_, _, _, _)
\* [feature(position) for feature in features] from index k on: the tensors,
\* or the exception of the first function that raises; each function is given
\* the Position as the one before it left it
ApplyAll(feats, k, pos, acc) ==
    IF k > Len(feats) THEN Return(acc, pos)
    ELSE With(Apply(feats[k], pos), LAMBDA e :
            IF e.raised # "None" THEN e
            ELSE ApplyAll(feats, k + 1, e.after, Append(acc, e.value)))

\* extract_features(position, features, dihedral) for a non-empty list
extract_features(pos, feats, dihedral) ==
    With(ApplyAll(feats, 1, pos, <<>>), LAMBDA applied :
        IF applied.raised # "None" THEN applied
        ELSE With(NpConcatenate2(applied.value), LAMBDA composite :
                IF dihedral # None
                THEN Return(NpRot90(NpFlip(composite, dihedral[1]), dihedral[2]),
                            applied.after)
                ELSE Return(composite, applied.after)))

RECURSIVE SumPlanes(_)
\* sum(f.planes for f in features)
SumPlanes(feats) ==
    IF feats = <<>> THEN 0 ELSE feats[1].planes + SumPlanes(Tail(feats))

\* output[i] = t for an N x N x num_planes slot: numpy broadcasts a last axis
\* of size 1 and refuses any other size that differs
AssignSlot(num_planes, t) ==
    IF Width(t) = num_planes THEN Return(t, <<>>)
    ELSE IF Width(t) = 1
    THEN Return([r \in Idx |-> [c \in Idx |-> [ch \in 1 .. num_planes |-> t[r][c][1]]]], <<>>)
    ELSE Raise("ValueError", <<>>)

\* every slice is the extraction of the first position
BulkPosition_First(poss, i) == poss[1]

\* the position that iteration i (1-based) of the loop extracts
BulkPosition(poss, i) == poss[i]

RECURSIVE BulkLoop(_, _, _, _)
\* the loop of bulk_extract_features from index i (1-based) on
BulkLoop(poss, feats, i, output) ==
    IF i > Len(poss)
    THEN Return([shape |-> <<Len(poss), N, N, SumPlanes(feats)>>, data |-> output], poss)
    ELSE With(extract_features(BulkPosition(poss, i), feats, None), LAMBDA e :
         With([poss EXCEPT ![i] = e.after], LAMBDA after :
            IF e.raised # "None" THEN Raise(e.raised, after)
            ELSE With(AssignSlot(SumPlanes(feats), e.value), LAMBDA slot :
                    IF slot.raised # "None" THEN Raise(slot.raised, after)
                    ELSE BulkLoop(after, feats, i + 1, Append(output, slot.value)))))

bulk_extract_features(poss, feats) == BulkLoop(poss, feats, 1, <<>>)

\* the games whose positions the caller holds (no move of them captures)
GameChoices ==
    {<<>>,
     <<<<0, 0>>, <<1, 1>>, <<0, 1>>>>,
     <<<<0, 1>>, None, <<1, 0>>, None>>}

PositionChoices == {PositionAfter(moves) : moves \in GameChoices}

\* the plane functions a caller can list: the declared ones and one of its
\* own whose tensor has fewer channels than its tag says
FeatureChoices == DeclaredFeatures \cup {Planes(2, "mistagged_feature")}

\* the (flip-axis, rotation-count) pairs
Dihedrals == {<<a, k>> : a \in {0, 1}, k \in 0 .. 3}

IsInjective(s) == \A i \in DOMAIN s : \A j \in DOMAIN s : s[i] = s[j] => i = j

Init ==
    /\ N = BoardSide
    /\ pc = "call"
    /\ positions \in {ps \in SeqsOf(PositionChoices, 1, MaxPositions) : IsInjective(ps)}
    /\ features \in {fs \in SeqsOf(FeatureChoices, 1, MaxFeatures) : IsInjective(fs)}
    /\ position = None
    /\ feature = None
    /\ nplanes = 0
    /\ call = None
    /\ ret = None

\* the call `c` on the Positions `poss`
Perform(c, poss) ==
    IF c.fn = "extract_features"
    THEN With(extract_features(poss[c.i], features, None), LAMBDA e :
            [ret |-> Result(e), positions |-> [poss EXCEPT ![c.i] = e.after]])
    ELSE With(bulk_extract_features(poss, features), LAMBDA e :
            [ret |-> Result(e), positions |-> e.after])

\* the call returns: the caller gets its result, the Positions are as it left them
Returns(done) ==
    /\ ret' = done.ret
    /\ positions' = done.positions

CallExtract ==
    /\ pc = "call"
    /\ \E i \in 1 .. Len(positions) :
            call' = [fn |-> "extract_features", i |-> i, positions |-> positions]
    /\ Returns(Perform(call', positions))
    /\ pc' = "return"
    /\ UNCHANGED <<N, feature, nplanes, position, features>>

CallBulk ==
    /\ pc = "call"
    /\ call' = [fn |-> "bulk_extract_features", i |-> 0, positions |-> positions]
    /\ Returns(Perform(call', positions))
    /\ pc' = "return"
    /\ UNCHANGED <<N, feature, nplanes, position, features>>

\* the caller repeats its call on the Positions as the first call left them
CallAgain ==
    /\ pc = "return"
    /\ Returns(Perform(call, positions))
    /\ pc' = "again"
    /\ UNCHANGED <<N, feature, nplanes, position, features, call>>

Next == CallExtract \/ CallBulk \/ CallAgain

Spec == Init /\ [][Next]_vars

(* ------------------- extract_features with symmetry ------------------- *)
CallSymmetric ==
    /\ pc = "call"
    /\ \E d \in Dihedrals :
            /\ call' = [dihedral |-> d, position |-> position]
            /\ ReturnsTo(extract_features(position, features, d))
    /\ pc' = "return"
    /\ UNCHANGED <<N, feature, nplanes, positions, features>>

InitSymmetric ==
    /\ N = BoardSide
    /\ pc = "call"
    /\ position \in PositionChoices
    /\ features \in {fs \in SeqsOf(FeatureChoices, 1, MaxFeatures) : IsInjective(fs)}
    /\ positions = None
    /\ feature = None
    /\ nplanes = 0
    /\ call = None
    /\ ret = None

SpecSymmetric == InitSymmetric /\ [][CallSymmetric]_vars

(* ------------------------------ claims -------------------------------- *)
Returned(fn) == pc = "return" /\ call.fn = fn

\* the Position given to the last extract_features call
Given == call.positions[call.i]

\* the unsymmetrised composite of the Position and list of the last call
Plain == extract_features(call.position, features, None).value

IsDeclaredList(feats) == \A k \in DOMAIN feats : feats[k] \in DeclaredFeatures

\* C2 (refuted by the code): whenever a function of the list returns a tensor
\* whose last-axis size differs from its declared width, extract_features
\* raises and returns no composite.
C2_FailFast ==
    (/\ Returned("extract_features")
     /\ \E k \in DOMAIN features :
            Width(Apply(features[k], Given).value) # features[k].planes)
        => ret.raised # "None"

\* the channel where the block of the j-th function of the list starts
BlockStart(feats, j) == SumPlanes(SubSeq(feats, 1, j - 1))

\* C3: for a non-empty list of declared feature functions, extract_features
\* with no symmetry returns an N x N x (sum of declared widths) tensor whose
\* channel block of the j-th function, starting at the sum of the widths
\* before it, equals that function's own output on the position.
C3_Composite ==
    (Returned("extract_features") /\ IsDeclaredList(features)) =>
        /\ ret.raised = "None"
        /\ DOMAIN ret.value = Idx
        /\ \A r \in Idx :
            /\ DOMAIN ret.value[r] = Idx
            /\ \A c \in Idx : Len(ret.value[r][c]) = SumPlanes(features)
        /\ \A j \in DOMAIN features :
              With(Apply(features[j], Given).value, LAMBDA own :
                \A r \in Idx : \A c \in Idx :
                    SubSeq(ret.value[r][c],
                           BlockStart(features, j) + 1,
                           BlockStart(features, j) + features[j].planes)
                      = own[r][c])

\* two different functions in the list, the first wider than the second, on
\* a position with stones
C3_Witness ==
    /\ Returned("extract_features")
    /\ IsDeclaredList(features)
    /\ Len(features) = 2
    /\ features[1].planes > features[2].planes
    /\ features[1].fn = "stone_color_feature"
    /\ Given.board # EmptyBoard
    /\ Len(ret.value[0][0]) = features[1].planes + features[2].planes

\* the cell of an N x N array that its reflection along axis a brings to p
BeforeReflection(p, a) ==
    IF a = 0 THEN <<N - 1 - p[1], p[2]>> ELSE <<p[1], N - 1 - p[2]>>

\* the cell that one counter-clockwise quarter turn brings to p
BeforeTurn(p) == <<p[2], N - 1 - p[1]>>

RECURSIVE BeforeTurns(_, _)
\* the cell that k quarter turns bring to p
BeforeTurns(p, k) == IF k = 0 THEN p ELSE BeforeTurns(BeforeTurn(p), k - 1)

\* the cell that the reflection along d[1] followed by d[2] quarter turns
\* brings to p
Source(p, d) == BeforeReflection(BeforeTurns(p, d[2]), d[1])

\* C4: with symmetry (a, k) the result has the channels of the unsymmetrised
\* result, in the same order, and every channel is moved by the same spatial
\* map: the vector at every cell p is the whole vector of the cell of the
\* unsymmetrised result that the reflection along axis a followed by k
\* quarter turns brings to p.
C4_Symmetry ==
    pc = "return" =>
        /\ ret.raised = "None"
        /\ With(Plain, LAMBDA plain :
              \A p \in Points :
                ret.value[p[1]][p[2]]
                  = plain[Source(p, call.dihedral)[1]][Source(p, call.dihedral)[2]])

\* the cells of a tensor hold pairwise different vectors
IsAsymmetric(t) ==
    \A p \in Points : \A q \in Points : t[p[1]][p[2]] = t[q[1]][q[2]] => p = q

\* a reflection along axis 1 and three quarter turns of a composite of two
\* functions whose cells all differ
C4_Witness ==
    /\ pc = "return"
    /\ call.dihedral = <<1, 3>>
    /\ Len(features) = 2
    /\ ret.raised = "None"
    /\ IsAsymmetric(ret.value)

\* the symmetry step of extract_features on a composite
Symmetrise(composite, dihedral) == NpRot90(NpFlip(composite, dihedral[1]), dihedral[2])

\* C5: the transform that extract_features applied has an inverse among the
\* 8 transforms: applying it to the result gives back the unsymmetrised
\* composite exactly.
C5_RoundTrip ==
    pc = "return" =>
        /\ ret.raised = "None"
        /\ \E inverse \in Dihedrals : Symmetrise(ret.value, inverse) = Plain

\* a reflection along axis 0 and one quarter turn of a composite whose cells
\* all differ: only one of the other transforms undoes it
C5_Witness ==
    /\ pc = "return"
    /\ call.dihedral = <<0, 1>>
    /\ ret.raised = "None"
    /\ IsAsymmetric(ret.value)
    /\ Symmetrise(ret.value, <<0, 0>>) # Plain
    /\ Symmetrise(ret.value, <<0, 2>>) # Plain

\* C6: for a list of declared feature functions, bulk_extract_features
\* returns a tensor of shape (len(positions), N, N, sum of declared widths)
\* whose i-th slice is extract_features(positions[i], features) with no
\* symmetry, for every i.
C6_Bulk ==
    (Returned("bulk_extract_features") /\ IsDeclaredList(features)) =>
        /\ ret.raised = "None"
        /\ ret.value.shape = <<Len(call.positions), N, N, SumPlanes(features)>>
        /\ Len(ret.value.data) = Len(call.positions)
        /\ \A i \in DOMAIN call.positions :
              /\ ret.value.data[i] = extract_features(call.positions[i], features, None).value
              /\ Width(ret.value.data[i]) = SumPlanes(features)

\* a batch of two positions whose extractions differ
C6_Witness ==
    /\ Returned("bulk_extract_features")
    /\ IsDeclaredList(features)
    /\ Len(call.positions) = 2
    /\ ret.raised = "None"
    /\ ret.value.data[1] # ret.value.data[2]

\* C7: no call changes the Position(s) it is given, and the same call
\* repeated on them returns what the first call returned.
C7_NoMutation ==
    [][/\ positions' = positions
       /\ pc = "return" => ret' = ret]_vars

\* a batch extracted twice with player_opponent_recent_eight_move in the
\* list, on a position whose snapshots hold stones of both colours
C7_Witness ==
    /\ pc = "again"
    /\ call.fn = "bulk_extract_features"
    /\ \E k \in DOMAIN features : features[k].fn = "player_opponent_recent_eight_move"
    /\ \E i \in DOMAIN positions :
            /\ Len(positions[i].recent_board) >= 2
            /\ \E r \in Idx : \E c \in Idx :
                    positions[i].recent_board[2][r][c] = WHITE
    /\ ret.raised = "None"

====
